---- MODULE Spec2Model ----
(***************************************************************************)
(* A model of the esp32c3-hal drivers.  DMA (src/src/dma.rs): the ListItem *)
(* transfer descriptor, the Channel register interface and the DMAPipe.    *)
(* GPIO (src/src/gpio.rs): the configuration registers of one pin.         *)
(* Registers and the descriptor's state word are 32-bit words, held as the *)
(* set of their 1-bits; every volatile access a DMA call makes is          *)
(* recorded, in order, in `log`.                                           *)
(***************************************************************************)
EXTENDS Integers, Sequences, FiniteSets, TLC

VARIABLES
    item,              \* the ListItem under test: [state, buffer_ptr, next_item_ptr]
    attached,          \* history: the lengths passed to set_buffer since new()
    linked,            \* history: set_next was called since new()
    debug_assertions,  \* build mode: TRUE when debug_assert! is compiled in
    panicked,          \* a debug_assert! has fired: the program is gone
    dma,               \* the DMA register block: register group -> channel -> u32
    int_st,            \* the interrupt status registers: channel -> status bits
    pipes,             \* the DMAPipe values constructed so far
    todo,              \* the Channel calls the running function still has to make
    ncalls,            \* number of API calls made so far
    nhw,               \* number of hardware status changes so far
    call,              \* the latest API call: its name, arguments and pre-state
    log,               \* the volatile accesses of the latest API call, in order
    ret,               \* the value the latest API call returned
    gpio,              \* the registers of one GPIO pin, and the pin's number
    chain,             \* the ListItems of a transfer: address -> ListItem
    engine,            \* the DMA engine: where each direction is in its chain
    harness            \* the program that runs a transfer and polls it

itemVars == <<item, attached, linked, debug_assertions, panicked>>
dmaVars == <<dma, int_st, pipes, todo, ncalls, nhw, log>>
gpioVars == <<gpio>>
loopVars == <<chain, engine, harness>>
vars == <<item, attached, linked, debug_assertions, panicked,
          dma, int_st, pipes, todo, ncalls, nhw, call, log, ret,
          gpio, chain, engine, harness>>

---------------------------------------------------------------------------
(* Bounds of the model *)

\* set_buffer calls on one ListItem between two new()
MaxSetBuffer == 2

\* Channel methods called directly, one after the other
MaxChannelCalls == 2

\* DMAPipe functions called, one after the other
MaxPipeCalls == 2

\* DMAPipe values constructed, one after the other
MaxPipes == 1

\* polls of a DMAPipe, one after the other
MaxPolls == 2

\* status bits the hardware raises
MaxHwSteps == 1

\* DMAPipe functions called on pipes that may share a channel
MaxAliasCalls == 4

---------------------------------------------------------------------------
(* 32-bit words.  TLC's integers are narrower than u32, so a u32 is the   *)
(* set of the positions (0..31) of its bits that are 1: |, & and ! are     *)
(* union, intersection and complement, and a shift drops the bits that     *)
(* leave the word.                                                         *)

Bit == 0 .. 31

\* `x as u32` of a length, an address or an enum value (all below 2^31)
AsU32(x) == {i \in 0 .. 30 : (x \div (2 ^ i)) % 2 = 1}

\* the number a word of at most 31 bits stands for
RECURSIVE Value(_)
Value(w) ==
    IF w = {} THEN 0
    ELSE LET i == CHOOSE j \in w : TRUE IN (2 ^ i) + Value(w \ {i})

BitAnd(a, b) == a \cap b

BitOr(a, b) == a \cup b

BitNot(a) == Bit \ a

Shl(a, k) == {i + k : i \in {j \in a : j + k \in Bit}}

Shr(a, k) == {i - k : i \in {j \in a : j >= k}}

---------------------------------------------------------------------------
(* ListItem *)

\* buffer lengths tried (buffer.len()), both sides of the 12-bit limit
BufferLens == {0, 1, 2, 10, 20, 4095, 4096, 65536, 1048576}

\* buffer addresses tried (buffer.as_mut_ptr())
BufferAddrs == {1070071808, 1070075904}

\* successor addresses tried, the null pointer included
NextAddrs == {0, 1070080000, 1070596092}

ListItem_new ==
    [state |-> Shl(AsU32(3), 30), buffer_ptr |-> AsU32(0), next_item_ptr |-> AsU32(0)]

\* a wrong shift: the capacity field starts at bit 11 instead of bit 12
ListItem_set_buffer_shift11(self, buffer_len, buffer_ptr) ==
    LET len == AsU32(buffer_len)
    IN  [self EXCEPT !.state = BitOr(@, BitOr(Shl(len, 11), len)),
                     !.buffer_ptr = AsU32(buffer_ptr)]

ListItem_set_buffer(self, buffer_len, buffer_ptr) ==
    LET len == AsU32(buffer_len)
    IN  [self EXCEPT !.state = BitOr(@, BitOr(Shl(len, 12), len)),
                     !.buffer_ptr = AsU32(buffer_ptr)]

\* a wrong mask: the owner flag (bit 31) is cleared instead of end-of-list
ListItem_set_next_bit31(self, next) ==
    [self EXCEPT !.state = BitAnd(@, BitNot(Shl(AsU32(1), 31))),
                 !.next_item_ptr = AsU32(next)]

ListItem_set_next(self, next) ==
    [self EXCEPT !.state = BitAnd(@, BitNot(Shl(AsU32(1), 30))),
                 !.next_item_ptr = AsU32(next)]

ListItem_has_error(self) == Shr(self.state, 28) # AsU32(0)

\* the fields of the state word
Owner(self) == 31 \in self.state
EndOfList(self) == 30 \in self.state
Capacity(self) == Value(Shr(self.state, 12) \cap (0 .. 11))
Length(self) == Value(self.state \cap (0 .. 11))
OutsideFields(self) == Shr(self.state, 24)

NoCall == [op |-> "none"]

InitListItem ==
    /\ item = ListItem_new
    /\ attached = <<>>
    /\ linked = FALSE
    /\ debug_assertions \in BOOLEAN
    /\ panicked = FALSE
    /\ dma = <<>>
    /\ int_st = <<>>
    /\ pipes = {}
    /\ todo = <<>>
    /\ ncalls = 0
    /\ nhw = 0
    /\ call = NoCall
    /\ log = <<>>
    /\ ret = FALSE
    /\ gpio = <<>>
    /\ chain = <<>>
    /\ engine = <<>>
    /\ harness = <<>>

new ==
    /\ ~panicked
    /\ item' = ListItem_new
    /\ attached' = <<>>
    /\ linked' = FALSE
    /\ call' = [op |-> "new", pre |-> item]
    /\ UNCHANGED <<debug_assertions, panicked, ret>>
    /\ UNCHANGED <<dmaVars, gpioVars, loopVars>>

set_buffer(buffer_len, buffer_ptr) ==
    /\ ~panicked
    /\ Len(attached) < MaxSetBuffer
    /\ call' = [op |-> "set_buffer", len |-> buffer_len, ptr |-> buffer_ptr,
                pre |-> item]
    /\ IF debug_assertions /\ ~(buffer_len < 4096)
       THEN /\ panicked' = TRUE
            /\ UNCHANGED <<item, attached>>
       ELSE /\ item' = ListItem_set_buffer(item, buffer_len, buffer_ptr)
            /\ attached' = Append(attached, buffer_len)
            /\ UNCHANGED panicked
    /\ UNCHANGED <<linked, debug_assertions, ret>>
    /\ UNCHANGED <<dmaVars, gpioVars, loopVars>>

set_next(next) ==
    /\ ~panicked
    /\ item' = ListItem_set_next(item, next)
    /\ linked' = TRUE
    /\ call' = [op |-> "set_next", next |-> next, pre |-> item]
    /\ UNCHANGED <<attached, debug_assertions, panicked, ret>>
    /\ UNCHANGED <<dmaVars, gpioVars, loopVars>>

has_error ==
    /\ ~panicked
    /\ ret' = ListItem_has_error(item)
    /\ call' = [op |-> "has_error", pre |-> item]
    /\ UNCHANGED <<item, attached, linked, debug_assertions, panicked>>
    /\ UNCHANGED <<dmaVars, gpioVars, loopVars>>

NextListItem ==
    \/ new
    \/ \E buffer_len \in BufferLens, buffer_ptr \in BufferAddrs :
          set_buffer(buffer_len, buffer_ptr)
    \/ \E next \in NextAddrs : set_next(next)
    \/ has_error

SpecListItem == InitListItem /\ [][NextListItem]_vars

---------------------------------------------------------------------------
(* The DMA register block *)

Channel == {"Channel0", "Channel1", "Channel2"}

SPI2 == 0
UHCI0 == 2
I2S == 3
AES == 6
SHA == 7
ADC == 8

Peripheral == {SPI2, UHCI0, I2S, AES, SHA, ADC}

\* the register groups the driver reads and writes, one register per channel
RegGroup == {"out_conf0", "in_conf0", "out_link", "in_link",
             "out_peri_sel", "in_peri_sel"}

\* register contents tried as the state the driver finds: all zero, all
\* ones, and a mixed word (bits 0, 21 and 23 set, bits 4 and 22 clear)
RegInits == {AsU32(0), Bit, {0, 3, 9, 17, 21, 23, 27, 31}}

\* the peripherals tried where the choice of peripheral is not the subject
SomePeripherals == {SPI2, ADC}

\* addresses of list heads tried (ListItem is 4-byte aligned)
HeadAddrs == {1070076468, 1070137352}

\* the channels and the peripheral of the pipes that may share a channel
AliasChannels == {"Channel0", "Channel1"}
AliasPeripherals == {UHCI0}

\* dma.<group>_ch<n>.as_ptr(): the register of a group that belongs to a channel
Ptr(grp, self) == [grp |-> grp, ch |-> self]

\* read_volatile(reg) returning val / write_volatile(reg, val)
Rd(reg, val) == [acc |-> "read", reg |-> reg, val |-> val]
Wr(reg, val) == [acc |-> "write", reg |-> reg, val |-> val]

\* the register block after a sequence of volatile accesses
RECURSIVE Commit(_, _)
Commit(regs, accs) ==
    IF accs = <<>> THEN regs
    ELSE LET a == Head(accs)
         IN  Commit(IF a.acc = "write"
                    THEN [regs EXCEPT ![a.reg.grp][a.reg.ch] = a.val]
                    ELSE regs,
                    Tail(accs))

---------------------------------------------------------------------------
(* Channel: each method is the sequence of volatile accesses it makes *)

\* a reset that sets the bit and never clears it again
reset_left_set(regs, conf0_reg) ==
    LET read1 == regs[conf0_reg.grp][conf0_reg.ch]
    IN  << Rd(conf0_reg, read1), Wr(conf0_reg, BitOr(read1, AsU32(1))) >>

\* a reset whose second write is zero instead of the register with bit 0 clear
reset_writes_zero(regs, conf0_reg) ==
    LET read1 == regs[conf0_reg.grp][conf0_reg.ch]
        conf0_set == BitOr(read1, AsU32(1))
    IN  << Rd(conf0_reg, read1), Wr(conf0_reg, conf0_set),
           Rd(conf0_reg, conf0_set), Wr(conf0_reg, AsU32(0)) >>

reset(regs, conf0_reg) ==
    LET read1 == regs[conf0_reg.grp][conf0_reg.ch]
        conf0_set == BitOr(read1, AsU32(1))
        read2 == conf0_set
        conf0_clr == BitAnd(read2, BitNot(AsU32(1)))
    IN  << Rd(conf0_reg, read1), Wr(conf0_reg, conf0_set),
           Rd(conf0_reg, read2), Wr(conf0_reg, conf0_clr) >>

\* a set_start that writes the address without the read-modify-write
set_start_plain_write(regs, link_reg, list) ==
    << Wr(link_reg, BitAnd(AsU32(list), AsU32(1048575))) >>

set_start(regs, link_reg, list) ==
    LET list_ptr == AsU32(list)
        read1 == regs[link_reg.grp][link_reg.ch]
        cleared == BitAnd(read1, BitNot(AsU32(1048575)))
        link == BitOr(cleared, BitAnd(list_ptr, AsU32(1048575)))
    IN  << Rd(link_reg, read1), Wr(link_reg, link) >>

set_peripheral(regs, peri_reg, peripheral) ==
    << Wr(peri_reg, AsU32(peripheral)) >>

enable(regs, link_reg) ==
    LET read1 == regs[link_reg.grp][link_reg.ch]
        link == BitOr(read1, Shl(AsU32(1), 22))
    IN  << Rd(link_reg, read1), Wr(link_reg, link) >>

mem_to_mem_accesses(regs, self) ==
    LET conf0_reg == Ptr("in_conf0", self)
        read1 == regs[conf0_reg.grp][conf0_reg.ch]
        conf0 == BitOr(read1, Shl(AsU32(1), 4))
    IN  << Rd(conf0_reg, read1), Wr(conf0_reg, conf0) >>

\* the running function makes its next Channel call, which makes `accs`
Run(accs) ==
    /\ dma' = Commit(dma, accs)
    /\ log' = log \o accs
    /\ todo' = Tail(todo)
    /\ UNCHANGED <<int_st, pipes, ncalls, nhw, call, ret>>
    /\ UNCHANGED <<itemVars, gpioVars, loopVars>>

Pending(c) == todo # <<>> /\ Head(todo) = c

tx_reset(self) ==
    /\ Pending(<<"tx_reset", self>>)
    /\ Run(reset(dma, Ptr("out_conf0", self)))

\* a receive reset that pulses the transmit configuration register
rx_reset_on_out(self) ==
    /\ Pending(<<"rx_reset", self>>)
    /\ Run(reset(dma, Ptr("out_conf0", self)))

rx_reset(self) ==
    /\ Pending(<<"rx_reset", self>>)
    /\ Run(reset(dma, Ptr("in_conf0", self)))

set_tx_start(self, list) ==
    /\ Pending(<<"set_tx_start", self, list>>)
    /\ Run(set_start(dma, Ptr("out_link", self), list))

set_rx_start(self, list) ==
    /\ Pending(<<"set_rx_start", self, list>>)
    /\ Run(set_start(dma, Ptr("in_link", self), list))

set_tx_peripheral(self, peripheral) ==
    /\ Pending(<<"set_tx_peripheral", self, peripheral>>)
    /\ Run(set_peripheral(dma, Ptr("out_peri_sel", self), peripheral))

set_rx_peripheral(self, peripheral) ==
    /\ Pending(<<"set_rx_peripheral", self, peripheral>>)
    /\ Run(set_peripheral(dma, Ptr("in_peri_sel", self), peripheral))

rx_enable(self) ==
    /\ Pending(<<"rx_enable", self>>)
    /\ Run(enable(dma, Ptr("in_link", self)))

tx_enable(self) ==
    /\ Pending(<<"tx_enable", self>>)
    /\ Run(enable(dma, Ptr("out_link", self)))

mem_to_mem(self) ==
    /\ Pending(<<"mem_to_mem", self>>)
    /\ Run(mem_to_mem_accesses(dma, self))

ChannelSteps ==
    \/ \E self \in Channel : tx_reset(self)
    \/ \E self \in Channel : rx_reset(self)
    \/ \E self \in Channel, list \in HeadAddrs : set_tx_start(self, list)
    \/ \E self \in Channel, list \in HeadAddrs : set_rx_start(self, list)
    \/ \E self \in Channel, peripheral \in Peripheral :
          set_tx_peripheral(self, peripheral)
    \/ \E self \in Channel, peripheral \in Peripheral :
          set_rx_peripheral(self, peripheral)
    \/ \E self \in Channel : rx_enable(self)
    \/ \E self \in Channel : tx_enable(self)
    \/ \E self \in Channel : mem_to_mem(self)

---------------------------------------------------------------------------
(* The Channel methods called directly *)

ChannelCalls ==
    {<<f, self>> : f \in {"tx_reset", "rx_reset", "rx_enable", "tx_enable",
                          "mem_to_mem"},
                  self \in Channel}
    \cup {<<f, self, list>> : f \in {"set_tx_start", "set_rx_start"},
                              self \in Channel, list \in HeadAddrs}
    \cup {<<f, self, peripheral>> : f \in {"set_tx_peripheral", "set_rx_peripheral"},
                                    self \in Channel, peripheral \in SomePeripherals}

\* the register block as the driver finds it
InitDma ==
    /\ \E word \in RegInits :
          dma = [grp \in RegGroup |-> [ch \in Channel |-> word]]
    /\ int_st = [ch \in Channel |-> [out_eof |-> FALSE, in_done |-> FALSE]]
    /\ pipes = {}
    /\ todo = <<>>
    /\ ncalls = 0
    /\ nhw = 0
    /\ call = NoCall
    /\ log = <<>>
    /\ ret = FALSE
    /\ gpio = <<>>
    /\ chain = <<>>
    /\ engine = <<>>
    /\ harness = <<>>
    /\ item = ListItem_new
    /\ attached = <<>>
    /\ linked = FALSE
    /\ debug_assertions = FALSE
    /\ panicked = FALSE

call_channel(c) ==
    /\ todo = <<>>
    /\ ncalls < MaxChannelCalls
    /\ ncalls' = ncalls + 1
    /\ call' = [op |-> c[1], self |-> c[2], args |-> c, pre |-> dma,
                prev |-> [op |-> call.op,
                          self |-> IF call.op = "none" THEN "none" ELSE call.self,
                          pre |-> IF call.op = "none" THEN dma ELSE call.pre]]
    /\ log' = <<>>
    /\ todo' = <<c>>
    /\ UNCHANGED <<dma, int_st, pipes, nhw, ret>>
    /\ UNCHANGED <<itemVars, gpioVars, loopVars>>

NextChannel ==
    \/ \E c \in ChannelCalls : call_channel(c)
    \/ ChannelSteps

SpecChannel == InitDma /\ [][NextChannel]_vars

---------------------------------------------------------------------------
(* DMAPipe *)

DMAPipe(tx_channel, rx_channel) ==
    [tx_channel |-> tx_channel, rx_channel |-> rx_channel]

\* a peripheral pipe that binds the peripheral before it resets the channels
memory_n_peripheral_mux_first(tx_channel, rx_channel, peripheral) ==
    << <<"set_tx_peripheral", tx_channel, peripheral>>,
       <<"set_rx_peripheral", rx_channel, peripheral>>,
       <<"tx_reset", tx_channel>>,
       <<"rx_reset", rx_channel>>,
       <<"DMAPipe", tx_channel, rx_channel>> >>

memory_n_peripheral_calls(tx_channel, rx_channel, peripheral) ==
    << <<"tx_reset", tx_channel>>,
       <<"rx_reset", rx_channel>>,
       <<"set_tx_peripheral", tx_channel, peripheral>>,
       <<"set_rx_peripheral", rx_channel, peripheral>>,
       <<"DMAPipe", tx_channel, rx_channel>> >>

\* a loopback pipe that also binds a peripheral
memory_n_memory_with_mux(channel) ==
    << <<"tx_reset", channel>>,
       <<"rx_reset", channel>>,
       <<"set_rx_peripheral", channel, SPI2>>,
       <<"mem_to_mem", channel>>,
       <<"DMAPipe", channel, channel>> >>

\* a loopback pipe whose constructor also enables the transmit direction
memory_n_memory_armed(channel) ==
    << <<"tx_reset", channel>>,
       <<"rx_reset", channel>>,
       <<"mem_to_mem", channel>>,
       <<"tx_enable", channel>>,
       <<"DMAPipe", channel, channel>> >>

memory_n_memory_calls(channel) ==
    << <<"tx_reset", channel>>,
       <<"rx_reset", channel>>,
       <<"mem_to_mem", channel>>,
       <<"DMAPipe", channel, channel>> >>

\* a start that enables both directions before it programs the heads
start_transfer_enable_first(self, tx_list, rx_list) ==
    << <<"tx_enable", self.tx_channel>>,
       <<"rx_enable", self.rx_channel>>,
       <<"set_tx_start", self.tx_channel, tx_list>>,
       <<"set_rx_start", self.rx_channel, rx_list>> >>

start_transfer_calls(self, tx_list, rx_list) ==
    << <<"set_tx_start", self.tx_channel, tx_list>>,
       <<"set_rx_start", self.rx_channel, rx_list>>,
       <<"tx_enable", self.tx_channel>>,
       <<"rx_enable", self.rx_channel>> >>

\* a function of DMAPipe is entered: the Channel calls it makes are queued
Enter(c, calls) ==
    /\ todo = <<>>
    /\ ncalls' = ncalls + 1
    /\ call' = c
    /\ log' = <<>>
    /\ todo' = calls
    /\ UNCHANGED <<dma, int_st, pipes, nhw, ret>>
    /\ UNCHANGED <<itemVars, gpioVars, loopVars>>

memory_n_peripheral(tx_channel, rx_channel, peripheral) ==
    Enter([op |-> "memory_n_peripheral", tx_channel |-> tx_channel,
           rx_channel |-> rx_channel, peripheral |-> peripheral, pre |-> dma],
          memory_n_peripheral_calls(tx_channel, rx_channel, peripheral))

\* a loopback constructor that refuses a channel some pipe already holds
memory_n_memory_exclusive(channel) ==
    /\ \A p \in pipes : channel \notin {p.tx_channel, p.rx_channel}
    /\ Enter([op |-> "memory_n_memory", channel |-> channel, pre |-> dma],
             memory_n_memory_calls(channel))

memory_n_memory(channel) ==
    Enter([op |-> "memory_n_memory", channel |-> channel, pre |-> dma],
          memory_n_memory_calls(channel))

\* the constructor returns the DMAPipe
return_DMAPipe ==
    /\ todo # <<>>
    /\ Head(todo)[1] = "DMAPipe"
    /\ ret' = DMAPipe(Head(todo)[2], Head(todo)[3])
    /\ pipes' = pipes \cup {DMAPipe(Head(todo)[2], Head(todo)[3])}
    /\ todo' = Tail(todo)
    /\ UNCHANGED <<dma, int_st, ncalls, nhw, call, log>>
    /\ UNCHANGED <<itemVars, gpioVars, loopVars>>

\* a start_transfer that refuses a pipe with an armed direction
start_transfer_guarded(self, tx_list, rx_list) ==
    /\ self \in pipes
    /\ 22 \notin dma.out_link[self.tx_channel]
    /\ 22 \notin dma.in_link[self.rx_channel]
    /\ Enter([op |-> "start_transfer", self |-> self, tx_list |-> tx_list,
              rx_list |-> rx_list, pre |-> dma],
             start_transfer_calls(self, tx_list, rx_list))

start_transfer(self, tx_list, rx_list) ==
    /\ self \in pipes
    /\ Enter([op |-> "start_transfer", self |-> self, tx_list |-> tx_list,
              rx_list |-> rx_list, pre |-> dma],
             start_transfer_calls(self, tx_list, rx_list))

\* the channel whose status register each poll reads
get_tx_completion_channel(self) == self.tx_channel
get_rx_completion_channel(self) == self.tx_channel

\* whether the call before this poll was the same poll of the same pipe, with
\* no status change since, and what it returned
LastPoll(op, self) ==
    IF call.op = op /\ call.self = self /\ call.status = int_st
    THEN [repeat |-> TRUE, ret |-> ret]
    ELSE [repeat |-> FALSE, ret |-> FALSE]

\* a transmit poll that acknowledges the status bit it reads
get_tx_completion_clears(self) ==
    /\ self \in pipes
    /\ todo = <<>>
    /\ ncalls' = ncalls + 1
    /\ call' = [op |-> "get_tx_completion", self |-> self, pre |-> dma,
                status |-> int_st, prev |-> LastPoll("get_tx_completion", self)]
    /\ log' = << Rd(Ptr("int_st", get_tx_completion_channel(self)),
                    int_st[get_tx_completion_channel(self)]) >>
    /\ ret' = int_st[get_tx_completion_channel(self)].out_eof
    /\ int_st' = [int_st EXCEPT
                    ![get_tx_completion_channel(self)].out_eof = FALSE]
    /\ UNCHANGED <<dma, pipes, todo, nhw>>
    /\ UNCHANGED <<itemVars, gpioVars, loopVars>>

get_tx_completion(self) ==
    /\ self \in pipes
    /\ todo = <<>>
    /\ ncalls' = ncalls + 1
    /\ call' = [op |-> "get_tx_completion", self |-> self, pre |-> dma,
                status |-> int_st, prev |-> LastPoll("get_tx_completion", self)]
    /\ log' = << Rd(Ptr("int_st", get_tx_completion_channel(self)),
                    int_st[get_tx_completion_channel(self)]) >>
    /\ ret' = int_st[get_tx_completion_channel(self)].out_eof
    /\ UNCHANGED <<dma, int_st, pipes, todo, nhw>>
    /\ UNCHANGED <<itemVars, gpioVars, loopVars>>

get_rx_completion(self) ==
    /\ self \in pipes
    /\ todo = <<>>
    /\ ncalls' = ncalls + 1
    /\ call' = [op |-> "get_rx_completion", self |-> self, pre |-> dma,
                status |-> int_st, prev |-> LastPoll("get_rx_completion", self)]
    /\ log' = << Rd(Ptr("int_st", get_rx_completion_channel(self)),
                    int_st[get_rx_completion_channel(self)]) >>
    /\ ret' = int_st[get_rx_completion_channel(self)].in_done
    /\ UNCHANGED <<dma, int_st, pipes, todo, nhw>>
    /\ UNCHANGED <<itemVars, gpioVars, loopVars>>

\* the DMA engine raises a completion status bit of a channel
hw_raise_status(ch, status) ==
    /\ todo = <<>>
    /\ nhw < MaxHwSteps
    /\ ~int_st[ch][status]
    /\ nhw' = nhw + 1
    /\ int_st' = [int_st EXCEPT ![ch][status] = TRUE]
    /\ UNCHANGED <<dma, pipes, todo, ncalls, call, log, ret>>
    /\ UNCHANGED <<itemVars, gpioVars, loopVars>>

Init == InitDma

Next ==
    \/ /\ ncalls < MaxPipeCalls
       /\ \E tx_channel \in Channel, rx_channel \in Channel,
             peripheral \in SomePeripherals :
             memory_n_peripheral(tx_channel, rx_channel, peripheral)
    \/ /\ ncalls < MaxPipeCalls
       /\ \E channel \in Channel : memory_n_memory(channel)
    \/ return_DMAPipe
    \/ /\ ncalls < MaxPipeCalls
       /\ \E self \in pipes, tx_list \in HeadAddrs, rx_list \in HeadAddrs :
             start_transfer(self, tx_list, rx_list)
    \/ ChannelSteps

Spec == Init /\ [][Next]_vars

\* a pipe is constructed and polled while the hardware raises status bits
NextPoll ==
    \/ /\ ncalls < MaxPipes
       /\ \E tx_channel \in Channel, rx_channel \in Channel,
             peripheral \in SomePeripherals :
             memory_n_peripheral(tx_channel, rx_channel, peripheral)
    \/ /\ ncalls < MaxPipes
       /\ \E channel \in Channel : memory_n_memory(channel)
    \/ return_DMAPipe
    \/ /\ ncalls < MaxPipes + MaxPolls
       /\ \E self \in pipes : get_tx_completion(self)
    \/ /\ ncalls < MaxPipes + MaxPolls
       /\ \E self \in pipes : get_rx_completion(self)
    \/ \E ch \in Channel, status \in {"out_eof", "in_done"} :
          hw_raise_status(ch, status)
    \/ \E self \in Channel : tx_reset(self)
    \/ \E self \in Channel : rx_reset(self)
    \/ \E self \in Channel, peripheral \in Peripheral :
          set_tx_peripheral(self, peripheral)
    \/ \E self \in Channel, peripheral \in Peripheral :
          set_rx_peripheral(self, peripheral)
    \/ \E self \in Channel : mem_to_mem(self)

SpecPoll == InitDma /\ [][NextPoll]_vars

\* the two constructors alone, over every channel and every peripheral
NextConstruct ==
    \/ /\ ncalls < MaxPipes
       /\ \E tx_channel \in Channel, rx_channel \in Channel,
             peripheral \in Peripheral :
             memory_n_peripheral(tx_channel, rx_channel, peripheral)
    \/ /\ ncalls < MaxPipes
       /\ \E channel \in Channel : memory_n_memory(channel)
    \/ return_DMAPipe
    \/ \E self \in Channel : tx_reset(self)
    \/ \E self \in Channel : rx_reset(self)
    \/ \E self \in Channel, peripheral \in Peripheral :
          set_tx_peripheral(self, peripheral)
    \/ \E self \in Channel, peripheral \in Peripheral :
          set_rx_peripheral(self, peripheral)
    \/ \E self \in Channel : mem_to_mem(self)

SpecConstruct == InitDma /\ [][NextConstruct]_vars

\* pipes that may share a channel are constructed, started, polled and
\* started again, over two of the channels and one peripheral
NextAlias ==
    \/ /\ ncalls < MaxAliasCalls
       /\ \E tx_channel \in AliasChannels, rx_channel \in AliasChannels,
             peripheral \in AliasPeripherals :
             memory_n_peripheral(tx_channel, rx_channel, peripheral)
    \/ /\ ncalls < MaxAliasCalls
       /\ \E channel \in AliasChannels : memory_n_memory(channel)
    \/ return_DMAPipe
    \/ /\ ncalls < MaxAliasCalls
       /\ \E self \in pipes, tx_list \in HeadAddrs :
             \E rx_list \in HeadAddrs \ {tx_list} :
                start_transfer(self, tx_list, rx_list)
    \/ /\ ncalls < MaxAliasCalls
       /\ \E self \in pipes : get_tx_completion(self)
    \/ /\ ncalls < MaxAliasCalls
       /\ \E self \in pipes : get_rx_completion(self)
    \/ ChannelSteps

SpecAlias == InitDma /\ [][NextAlias]_vars

---------------------------------------------------------------------------
(* GPIO pins (src/src/gpio.rs): the registers of one Pin<S> *)

Function0 == 0
Function1 == 1
Function2 == 2
Function3 == 3
GpioFunction == {Function0, Function1, Function2, Function3}

Pull == {"Up", "Down", "None"}

MilliA5 == 0
MilliA10 == 1
MilliA20 == 2
MilliA40 == 3
DriveStrength == {MilliA5, MilliA10, MilliA20, MilliA40}

\* `b as u32` of a bool
BoolAsU32(b) == IF b THEN AsU32(1) ELSE AsU32(0)

Pin_set_function(io_mux, function) ==
    LET cleared == BitAnd(io_mux, BitNot(Shl(AsU32(3), 12)))
    IN  BitOr(cleared, Shl(AsU32(function), 12))

\* a set_pull that does not clear the two pull bits first
Pin_set_pull_no_clear(io_mux, pull) ==
    CASE pull = "Up" -> BitOr(io_mux, Shl(AsU32(1), 8))
      [] pull = "Down" -> BitOr(io_mux, Shl(AsU32(1), 7))
      [] pull = "None" -> io_mux

Pin_set_pull(io_mux, pull) ==
    LET cleared == BitAnd(io_mux, BitNot(Shl(AsU32(3), 7)))
    IN  CASE pull = "Up" -> BitOr(cleared, Shl(AsU32(1), 8))
          [] pull = "Down" -> BitOr(cleared, Shl(AsU32(1), 7))
          [] pull = "None" -> cleared

Pin_input_enable(io_mux, on) ==
    LET cleared == BitAnd(io_mux, BitNot(Shl(AsU32(1), 9)))
    IN  BitOr(cleared, Shl(BoolAsU32(on), 9))

Pin_output_select(cfg, select) ==
    LET cleared == BitAnd(cfg, BitNot(AsU32(255)))
    IN  BitOr(cleared, AsU32(select))

Pin_set_drive_strength(io_mux, drive_strength) ==
    LET cleared == BitAnd(io_mux, BitNot(Shl(AsU32(3), 10)))
    IN  BitOr(cleared, Shl(AsU32(drive_strength), 10))

\* the pin as the driver finds it: IO_MUX and OUT_CFG hold any of the words
\* tried, the pin's bits of OUT_EN and OUT are set or not, and no set_pull
\* has run yet (`pulled` is history)
InitGpio ==
    /\ \E word \in RegInits, out_en \in BOOLEAN, out \in BOOLEAN :
          gpio = [io_mux |-> word, out_cfg |-> word, out_en |-> out_en,
                  out |-> out, pulled |-> FALSE]
    /\ call = NoCall
    /\ ret = FALSE
    /\ item = ListItem_new
    /\ attached = <<>>
    /\ linked = FALSE
    /\ debug_assertions = FALSE
    /\ panicked = FALSE
    /\ dma = <<>>
    /\ int_st = <<>>
    /\ pipes = {}
    /\ todo = <<>>
    /\ ncalls = 0
    /\ nhw = 0
    /\ log = <<>>
    /\ chain = <<>>
    /\ engine = <<>>
    /\ harness = <<>>

\* a call on the pin: `c` is recorded with the registers it found
GpioCall(c, after) ==
    /\ gpio' = after
    /\ call' = [c EXCEPT !.pre = gpio]
    /\ UNCHANGED <<itemVars, dmaVars, ret, loopVars>>

set_function(function) ==
    GpioCall([op |-> "set_function", function |-> function, pre |-> gpio],
             [gpio EXCEPT !.io_mux = Pin_set_function(@, function)])

set_pull(pull) ==
    GpioCall([op |-> "set_pull", pull |-> pull, pre |-> gpio],
             [gpio EXCEPT !.io_mux = Pin_set_pull(@, pull),
                          !.pulled = TRUE])

input_enable(on) ==
    GpioCall([op |-> "input_enable", enable |-> on, pre |-> gpio],
             [gpio EXCEPT !.io_mux = Pin_input_enable(@, on)])

output_enable(on) ==
    GpioCall([op |-> "output_enable", enable |-> on, pre |-> gpio],
             [gpio EXCEPT !.out_en = on])

set_output(high) ==
    GpioCall([op |-> "set_output", high |-> high, pre |-> gpio],
             [gpio EXCEPT !.out = high])

set_drive_strength(drive_strength) ==
    GpioCall([op |-> "set_drive_strength",
              drive_strength |-> drive_strength, pre |-> gpio],
             [gpio EXCEPT !.io_mux = Pin_set_drive_strength(@, drive_strength)])

Input_new ==
    GpioCall([op |-> "Input_new", pre |-> gpio],
             [gpio EXCEPT
                !.io_mux = Pin_input_enable(
                              Pin_set_pull(Pin_set_function(@, Function1),
                                           "None"),
                              TRUE),
                !.out_en = FALSE,
                !.pulled = TRUE])

Output_new ==
    GpioCall([op |-> "Output_new", pre |-> gpio],
             [gpio EXCEPT
                !.io_mux = Pin_input_enable(
                              Pin_set_drive_strength(
                                 Pin_set_function(@, Function1), MilliA20),
                              FALSE),
                !.out_cfg = Pin_output_select(@, 128),
                !.out = FALSE,
                !.out_en = TRUE])

NextGpio ==
    \/ \E function \in GpioFunction : set_function(function)
    \/ \E pull \in Pull : set_pull(pull)
    \/ \E on \in BOOLEAN : input_enable(on)
    \/ \E on \in BOOLEAN : output_enable(on)
    \/ \E high \in BOOLEAN : set_output(high)
    \/ \E drive_strength \in DriveStrength :
          set_drive_strength(drive_strength)
    \/ Input_new
    \/ Output_new

SpecGpio == InitGpio /\ [][NextGpio]_vars

---------------------------------------------------------------------------
(* A loopback transfer from end to end: a program builds a chain of two    *)
(* ListItems, constructs a loopback DMAPipe, starts it on the chain and    *)
(* polls it, while the DMA engine walks the chain.                         *)

\* polls the program makes before it gives up
MaxLoopPolls == 4

\* the program: nothing built yet
NoHarness == [pc |-> "build"]

\* the program builds the chain: two new ListItems at `first` and `second`,
\* over buffers of 10 and 20 bytes, the first linked to the second
\* where the engine is in a direction: not started, at the ListItem at an
\* address, or past the last ListItem
Idle == [at |-> "idle", node |-> 0]
At(a) == [at |-> "node", node |-> a]
Done == [at |-> "done", node |-> 0]

build_chain(first, second) ==
    /\ harness = NoHarness
    /\ chain' =
          [a \in {first, second} |->
             IF a = first
             THEN ListItem_set_next(
                     ListItem_set_buffer(ListItem_new, 10, 1070071808),
                     second)
             ELSE ListItem_set_buffer(ListItem_new, 20, 1070075904)]
    /\ harness' = [pc |-> "run", head |-> first, seen |-> 0,
                   tx_done |-> FALSE, rx_done |-> FALSE]
    /\ engine' = [dir \in {"tx", "rx"} |-> Idle]
    /\ UNCHANGED <<itemVars, dmaVars, call, ret, gpioVars>>

\* the program takes the value its latest poll returned
observe ==
    /\ harness.pc = "run"
    /\ call.op \in {"get_tx_completion", "get_rx_completion"}
    /\ harness.seen < ncalls
    /\ harness' = [harness EXCEPT
                     !.seen = ncalls,
                     !.tx_done = IF call.op = "get_tx_completion"
                                 THEN ret ELSE @,
                     !.rx_done = IF call.op = "get_rx_completion"
                                 THEN ret ELSE @]
    /\ UNCHANGED <<itemVars, dmaVars, call, ret, gpioVars, chain, engine>>

\* both polls have returned true: the program calls has_error() on the two
\* ListItems
check_errors ==
    /\ harness.pc = "run"
    /\ harness.tx_done
    /\ harness.rx_done
    /\ harness' = [pc |-> "checked", head |-> harness.head,
                   has_error |-> [a \in DOMAIN chain |->
                                    ListItem_has_error(chain[a])]]
    /\ UNCHANGED <<itemVars, dmaVars, call, ret, gpioVars, chain, engine>>

\* the link register and the status bit of a direction
LinkOf(dir) == IF dir = "tx" THEN "out_link" ELSE "in_link"
StatusOf(dir) == IF dir = "tx" THEN "out_eof" ELSE "in_done"

\* the engine finds a direction of channel `ch` enabled and fetches the
\* ListItem its link register points at
hw_fetch(ch, dir) ==
    /\ engine[dir] = Idle
    /\ 22 \in dma[LinkOf(dir)][ch]
    /\ \E a \in DOMAIN chain :
          /\ AsU32(a) \cap (0 .. 19) = dma[LinkOf(dir)][ch] \cap (0 .. 19)
          /\ engine' = [engine EXCEPT ![dir] = At(a)]
    /\ UNCHANGED <<itemVars, dmaVars, call, ret, gpioVars, chain, harness>>

\* the engine has moved the bytes of a ListItem that has a successor and
\* goes on to the successor
hw_advance(dir) ==
    /\ engine[dir].at = "node"
    /\ ~EndOfList(chain[engine[dir].node])
    /\ \E a \in DOMAIN chain :
          /\ AsU32(a) = chain[engine[dir].node].next_item_ptr
          /\ engine' = [engine EXCEPT ![dir] = At(a)]
    /\ UNCHANGED <<itemVars, dmaVars, call, ret, gpioVars, chain, harness>>

\* error code 0 written over the top four bits of a ListItem's state
NoFault(self) == [self EXCEPT !.state = @ \ (28 .. 31)]

\* the engine has moved the bytes of the last ListItem: it raises the
\* direction's status bit without a fault.  When this ends the transfer
\* (the other direction is done) the engine either leaves the ListItems as
\* they are or writes error code 0 over the top four bits of each.
hw_complete(ch, dir, write_back) ==
    /\ engine[dir].at = "node"
    /\ EndOfList(chain[engine[dir].node])
    /\ engine' = [engine EXCEPT ![dir] = Done]
    /\ int_st' = [int_st EXCEPT ![ch][StatusOf(dir)] = TRUE]
    /\ chain' = IF write_back /\ (\A d \in {"tx", "rx"} \ {dir} :
                                     engine[d] = Done)
                THEN [a \in DOMAIN chain |-> NoFault(chain[a])]
                ELSE chain
    /\ UNCHANGED <<itemVars, dma, pipes, todo, ncalls, nhw, log, call, ret,
                   gpioVars, harness>>

\* registers as found with no direction enabled
InitLoopback ==
    /\ \E word \in {w \in RegInits : 22 \notin w} :
          dma = [grp \in RegGroup |-> [ch \in Channel |-> word]]
    /\ int_st = [ch \in Channel |-> [out_eof |-> FALSE, in_done |-> FALSE]]
    /\ pipes = {}
    /\ todo = <<>>
    /\ ncalls = 0
    /\ nhw = 0
    /\ call = NoCall
    /\ log = <<>>
    /\ ret = FALSE
    /\ gpio = <<>>
    /\ chain = <<>>
    /\ engine = <<>>
    /\ harness = NoHarness
    /\ item = ListItem_new
    /\ attached = <<>>
    /\ linked = FALSE
    /\ debug_assertions = FALSE
    /\ panicked = FALSE

NextLoopback ==
    \/ \E first \in HeadAddrs : \E second \in HeadAddrs \ {first} :
          build_chain(first, second)
    \/ /\ harness.pc = "run"
       /\ call.op = "none"
       /\ \E channel \in Channel : memory_n_memory(channel)
    \/ return_DMAPipe
    \/ /\ call.op = "memory_n_memory"
       /\ \E self \in pipes :
             start_transfer(self, harness.head, harness.head)
    \/ /\ harness.pc = "run"
       /\ call.op \in {"start_transfer", "get_tx_completion",
                        "get_rx_completion"}
       /\ harness.seen = ncalls \/ call.op = "start_transfer"
       /\ ~(harness.tx_done /\ harness.rx_done)
       /\ ncalls < 2 + MaxLoopPolls
       /\ \E self \in pipes : get_tx_completion(self)
    \/ /\ harness.pc = "run"
       /\ call.op \in {"start_transfer", "get_tx_completion",
                        "get_rx_completion"}
       /\ harness.seen = ncalls \/ call.op = "start_transfer"
       /\ ~(harness.tx_done /\ harness.rx_done)
       /\ ncalls < 2 + MaxLoopPolls
       /\ \E self \in pipes : get_rx_completion(self)
    \/ observe
    \/ check_errors
    \/ \E self \in pipes, dir \in {"tx", "rx"} :
          hw_fetch(IF dir = "tx" THEN self.tx_channel ELSE self.rx_channel,
                   dir)
    \/ /\ harness.pc # "build"
       /\ \E dir \in {"tx", "rx"} : hw_advance(dir)
    \/ \E self \in pipes, dir \in {"tx", "rx"}, write_back \in BOOLEAN :
          hw_complete(IF dir = "tx" THEN self.tx_channel ELSE self.rx_channel,
                      dir, write_back)
    \/ \E self \in Channel : tx_reset(self)
    \/ \E self \in Channel : rx_reset(self)
    \/ \E self \in Channel : mem_to_mem(self)
    \/ \E self \in Channel, list \in HeadAddrs : set_tx_start(self, list)
    \/ \E self \in Channel, list \in HeadAddrs : set_rx_start(self, list)
    \/ \E self \in Channel : tx_enable(self)
    \/ \E self \in Channel : rx_enable(self)

SpecLoopback == InitLoopback /\ [][NextLoopback]_vars

---------------------------------------------------------------------------
(* Claims about ListItem, checked under SpecListItem *)

\* C1: a ListItem returned by new() reports has_error() = FALSE and is
\* terminal (end-of-list flag set, no successor), under any sequence of
\* set_buffer calls, until set_next is called.
C1_FreshHasNoErrorAndIsTerminal ==
    (call.op = "has_error" /\ ~linked)
        => /\ ret = FALSE
           /\ EndOfList(item)
           /\ item.next_item_ptr = AsU32(0)

\* C3: a second set_buffer overwrites the first binding: with both lengths
\* in [0, 4095], capacity and length equal the second length and the buffer
\* address is the second buffer's.
C3_SecondSetBufferOverwrites ==
    (/\ call.op = "set_buffer"
     /\ ~panicked
     /\ Len(attached) = 2
     /\ attached[1] < 4096
     /\ attached[2] < 4096)
        => /\ Capacity(item) = attached[2]
           /\ Length(item) = attached[2]
           /\ item.buffer_ptr = AsU32(call.ptr)

\* C4: the first set_buffer on a ListItem made by new(), with a length in
\* [0, 4095], stores exactly that length in the capacity and the length
\* field and the buffer's address in buffer_ptr, and leaves the owner and
\* end-of-list flags as they were.
C4_FirstSetBufferReadsBack ==
    (/\ call.op = "set_buffer"
     /\ ~panicked
     /\ Len(attached) = 1
     /\ call.len < 4096)
        => /\ Capacity(item) = call.len
           /\ Length(item) = call.len
           /\ item.buffer_ptr = AsU32(call.ptr)
           /\ Owner(item) = Owner(call.pre)
           /\ EndOfList(item) = EndOfList(call.pre)

C4_Witness ==
    /\ call.op = "set_buffer"
    /\ ~panicked
    /\ Len(attached) = 1
    /\ call.len = 4095
    /\ Capacity(item) = 4095
    /\ Length(item) = 4095
    /\ linked

\* C5: set_buffer with a length >= 4096 is rejected in every build mode: it
\* never completes with a stored capacity or length other than the buffer's
\* length, and the bits of the state word above the two fields stay as
\* they were.
C5_OversizeSetBufferRejected ==
    (call.op = "set_buffer" /\ call.len >= 4096)
        => /\ \/ panicked
              \/ (Capacity(item) = call.len /\ Length(item) = call.len)
           /\ OutsideFields(item) = OutsideFields(call.pre)

\* C8: set_next(addr), on any ListItem and for any address, zero included,
\* clears the end-of-list flag and stores addr as the successor, and leaves
\* the owner flag, the capacity and length fields and buffer_ptr unchanged.
C8_SetNextLinks ==
    (call.op = "set_next")
        => /\ ~EndOfList(item)
           /\ item.next_item_ptr = AsU32(call.next)
           /\ Owner(item) = Owner(call.pre)
           /\ Capacity(item) = Capacity(call.pre)
           /\ Length(item) = Length(call.pre)
           /\ item.buffer_ptr = call.pre.buffer_ptr

C8_Witness ==
    /\ call.op = "set_next"
    /\ call.next = 0
    /\ EndOfList(call.pre)
    /\ ~EndOfList(item)
    /\ Owner(item)
    /\ Capacity(item) = 20

---------------------------------------------------------------------------
(* Claims about Channel, checked under SpecChannel *)

Low20(word) == word \cap (0 .. 19)
High12(word) == word \cap (20 .. 31)

\* the register a direction-qualified Channel method works on
GroupOf(op) ==
    CASE op \in {"tx_reset"} -> "out_conf0"
      [] op \in {"rx_reset", "mem_to_mem"} -> "in_conf0"
      [] op \in {"set_tx_start", "tx_enable"} -> "out_link"
      [] op \in {"set_rx_start", "rx_enable"} -> "in_link"
      [] op = "set_tx_peripheral" -> "out_peri_sel"
      [] op = "set_rx_peripheral" -> "in_peri_sel"

\* C7: set_tx_start / set_rx_start is a read-modify-write of the
\* direction's link register: afterwards its low 20 bits are those of the
\* address and its bits 20..31, the enable bit 22 among them, are as before.
C7_SetStartReadModifyWrite ==
    (call.op \in {"set_tx_start", "set_rx_start"} /\ todo = <<>>)
        => LET after == dma[GroupOf(call.op)][call.self]
               before == call.pre[GroupOf(call.op)][call.self]
           IN  /\ Low20(after) = Low20(AsU32(call.args[3]))
               /\ High12(after) = High12(before)

C7_Witness ==
    /\ call.op = "set_rx_start"
    /\ todo = <<>>
    /\ call.pre.in_link[call.self] = Bit
    /\ 22 \in dma.in_link[call.self]
    /\ Low20(dma.in_link[call.self]) = Low20(AsU32(call.args[3]))
    /\ Low20(dma.in_link[call.self]) # Low20(Bit)
    /\ dma.in_link[call.self] # AsU32(call.args[3])

\* C9: the reset of a direction is idempotent: run twice in a row on the
\* same direction, the second run leaves the configuration register as the
\* first run left it, which is its first value with the reset bit (bit 0)
\* clear and every other bit kept.
C9_ResetIdempotent ==
    (/\ call.op \in {"tx_reset", "rx_reset"}
     /\ todo = <<>>
     /\ call.prev.op = call.op
     /\ call.prev.self = call.self)
        => LET first == call.prev.pre[GroupOf(call.op)][call.self]
               once == call.pre[GroupOf(call.op)][call.self]
               twice == dma[GroupOf(call.op)][call.self]
           IN  /\ twice = once
               /\ once = first \ {0}

C9_Witness ==
    /\ call.op = "rx_reset"
    /\ todo = <<>>
    /\ call.prev.op = "rx_reset"
    /\ call.prev.self = call.self
    /\ call.prev.pre.in_conf0[call.self] = Bit
    /\ dma.in_conf0[call.self] = Bit \ {0}

---------------------------------------------------------------------------
(* Claims about DMAPipe *)

Range(seq) == {seq[i] : i \in DOMAIN seq}

\* the writes among a sequence of accesses
Writes(accs) == SelectSeq(accs, LAMBDA a : a.acc = "write")

\* C2: get_tx_completion returns the end-of-frame status bit of the pipe's
\* transmit channel and get_rx_completion the transfer-done status bit of
\* its receive channel, whatever the two channels are; neither reads the
\* status of another channel.  (Checked under SpecPoll.)
C2_PollsReadTheirOwnChannel ==
    /\ (call.op = "get_tx_completion")
          => ret = call.status[call.self.tx_channel].out_eof
    /\ (call.op = "get_rx_completion")
          => ret = call.status[call.self.rx_channel].in_done

\* C6: start_transfer programs a direction's head address before it enables
\* the direction: from the moment its tx_enable (rx_enable) call is done,
\* out_link of the transmit channel (in_link of the receive channel) has
\* bit 22 set and holds the low 20 bits of this call's head address; on
\* return that is so for both directions.  (Checked under Spec.)
C6_StartProgramsHeadBeforeEnable ==
    (call.op = "start_transfer")
        => LET tx == call.self.tx_channel
               rx == call.self.rx_channel
           IN  /\ (<<"tx_enable", tx>> \notin Range(todo))
                     => /\ 22 \in dma.out_link[tx]
                        /\ Low20(dma.out_link[tx]) = Low20(AsU32(call.tx_list))
               /\ (<<"rx_enable", rx>> \notin Range(todo))
                     => /\ 22 \in dma.in_link[rx]
                        /\ Low20(dma.in_link[rx]) = Low20(AsU32(call.rx_list))
               /\ \A i \in DOMAIN log :
                     (log[i].acc = "write" /\ 22 \in log[i].val
                        /\ 22 \notin call.pre[log[i].reg.grp][log[i].reg.ch])
                     => Low20(log[i].val) =
                          Low20(AsU32(IF log[i].reg.grp = "out_link"
                                      THEN call.tx_list ELSE call.rx_list))

\* start_transfer has enabled the transmit direction, which was not armed
\* before, and has not yet enabled the receive direction of another channel
C6_Witness ==
    /\ call.op = "start_transfer"
    /\ todo = << <<"rx_enable", call.self.rx_channel>> >>
    /\ call.self.tx_channel # call.self.rx_channel
    /\ 22 \notin call.pre.out_link[call.self.tx_channel]
    /\ 22 \in dma.out_link[call.self.tx_channel]
    /\ 22 \notin dma.in_link[call.self.rx_channel]
    /\ Low20(dma.in_link[call.self.rx_channel]) = Low20(AsU32(call.rx_list))
    /\ call.tx_list # call.rx_list

\* C10: memory_n_memory(channel) resets the transmit and then the receive
\* direction of the channel, then sets the loopback bit (bit 4) of the
\* channel's in_conf0, returns a DMAPipe with the channel in both roles,
\* and writes no out_peri_sel or in_peri_sel register.  (Checked under
\* SpecConstruct.)
C10_LoopbackPipeConstruction ==
    (call.op = "memory_n_memory" /\ todo = <<>>)
        => LET ch == call.channel
               w == Writes(log)
               tx_conf0 == Ptr("out_conf0", ch)
               rx_conf0 == Ptr("in_conf0", ch)
           IN  /\ Len(w) = 5
               /\ w[1].reg = tx_conf0 /\ 0 \in w[1].val
               /\ w[2].reg = tx_conf0 /\ 0 \notin w[2].val
               /\ w[3].reg = rx_conf0 /\ 0 \in w[3].val
               /\ w[4].reg = rx_conf0 /\ 0 \notin w[4].val
               /\ w[5].reg = rx_conf0 /\ w[5].val = w[4].val \cup {4}
               /\ dma.out_conf0[ch] = call.pre.out_conf0[ch] \ {0}
               /\ dma.in_conf0[ch] = (call.pre.in_conf0[ch] \ {0}) \cup {4}
               /\ ret = DMAPipe(ch, ch)
               /\ ret \in pipes
               /\ \A i \in DOMAIN log :
                     log[i].reg.grp \notin {"out_peri_sel", "in_peri_sel"}
               /\ dma.out_peri_sel = call.pre.out_peri_sel
               /\ dma.in_peri_sel = call.pre.in_peri_sel

C10_Witness ==
    /\ call.op = "memory_n_memory"
    /\ todo = <<>>
    /\ 0 \in call.pre.out_conf0[call.channel]
    /\ 4 \notin call.pre.in_conf0[call.channel]
    /\ 4 \in dma.in_conf0[call.channel]
    /\ 0 \notin dma.out_conf0[call.channel]
    /\ DMAPipe(call.channel, call.channel) \in pipes

\* C11: memory_n_peripheral(tx_channel, rx_channel, peripheral) writes, in
\* this order, the reset pulse of the transmit channel's out_conf0 (bit 0
\* set, then clear), the reset pulse of the receive channel's in_conf0, the
\* peripheral's number to the transmit channel's out_peri_sel and the same
\* number to the receive channel's in_peri_sel; no mux register is written
\* before both pulses are done, and on return the two mux registers hold
\* exactly the peripheral's number, whatever they held before.  (Checked
\* under SpecConstruct, over every peripheral.)
C11_PeripheralPipeConstruction ==
    (call.op = "memory_n_peripheral")
        => LET tx == call.tx_channel
               rx == call.rx_channel
               w == Writes(log)
               order == << Ptr("out_conf0", tx), Ptr("out_conf0", tx),
                           Ptr("in_conf0", rx), Ptr("in_conf0", rx),
                           Ptr("out_peri_sel", tx), Ptr("in_peri_sel", rx) >>
           IN  /\ Len(w) <= Len(order)
               /\ \A i \in DOMAIN w :
                     /\ w[i].reg = order[i]
                     /\ (i \in {1, 3}) => 0 \in w[i].val
                     /\ (i \in {2, 4}) => 0 \notin w[i].val
                     /\ (i \in {5, 6}) => w[i].val = AsU32(call.peripheral)
               /\ (todo = <<>>)
                     => /\ Len(w) = Len(order)
                        /\ Value(dma.out_peri_sel[tx]) = call.peripheral
                        /\ Value(dma.in_peri_sel[rx]) = call.peripheral
                        /\ ret = DMAPipe(tx, rx)
                        /\ ret \in pipes

\* a peripheral pipe over two distinct channels has been returned, and both
\* mux registers held another, non-zero value before
C11_Witness ==
    /\ call.op = "memory_n_peripheral"
    /\ todo = <<>>
    /\ call.tx_channel # call.rx_channel
    /\ call.peripheral = SHA
    /\ call.pre.out_peri_sel[call.tx_channel] = Bit
    /\ call.pre.in_peri_sel[call.rx_channel] = Bit
    /\ dma.out_peri_sel[call.tx_channel] = AsU32(SHA)
    /\ dma.in_peri_sel[call.rx_channel] = AsU32(SHA)

\* C16: the reset pulse of a direction is exactly two writes to its
\* configuration register, the first with bit 0 set and the second with
\* bit 0 clear, and the second is the very next access after the first:
\* no read or write of a register of that group lies between the two.
\* (Checked under SpecChannel.)
C16_ResetPulseUninterrupted ==
    (call.op \in {"tx_reset", "rx_reset"} /\ todo = <<>>)
        => LET conf0_reg == Ptr(GroupOf(call.op), call.self)
               w == Writes(log)
           IN  /\ Len(w) = 2
               /\ \E i \in DOMAIN log :
                     /\ i + 1 \in DOMAIN log
                     /\ log[i] = w[1]
                     /\ log[i + 1] = w[2]
                     /\ w[1].reg = conf0_reg /\ 0 \in w[1].val
                     /\ w[2].reg = conf0_reg /\ 0 \notin w[2].val
               /\ ~ \E i, j, k \in DOMAIN log :
                     /\ i < j /\ j < k
                     /\ log[i].acc = "write" /\ log[k].acc = "write"
                     /\ log[j].reg.grp = conf0_reg.grp

\* the registers of the transmit and of the receive direction of a channel
TxGroups == {"out_conf0", "out_link", "out_peri_sel"}
RxGroups == {"in_conf0", "in_link", "in_peri_sel"}

\* the direction a Channel method names
DirGroups(op) ==
    IF op \in {"tx_reset", "set_tx_start", "set_tx_peripheral", "tx_enable"}
    THEN TxGroups
    ELSE RxGroups

\* the transmit and the receive channel a DMAPipe call names
PipeTx(c) ==
    CASE c.op = "memory_n_memory" -> c.channel
      [] c.op = "memory_n_peripheral" -> c.tx_channel
      [] OTHER -> c.self.tx_channel
PipeRx(c) ==
    CASE c.op = "memory_n_memory" -> c.channel
      [] c.op = "memory_n_peripheral" -> c.rx_channel
      [] OTHER -> c.self.rx_channel

\* C17: channels and directions are isolated.  A step of a Channel method
\* on channel i changes, and writes, only registers of channel i and of the
\* direction the method names (out_* for the tx methods, in_* for the rx
\* methods and mem_to_mem); from the entry of a DMAPipe function on, the
\* only registers that differ from their value at entry are out_* registers
\* of its transmit channel and in_* registers of its receive channel.
\* (Checked under Spec.)
C17_ChannelAndDirectionIsolation ==
    [][/\ (todo # <<>> /\ Head(todo)[1] # "DMAPipe")
             => LET op == Head(todo)[1]
                    self == Head(todo)[2]
                IN  /\ \A grp \in RegGroup, ch \in Channel :
                          (dma'[grp][ch] # dma[grp][ch])
                             => (grp \in DirGroups(op) /\ ch = self)
                    /\ \A i \in (DOMAIN log') \ (DOMAIN log) :
                          (log'[i].acc = "write")
                             => /\ log'[i].reg.grp \in DirGroups(op)
                                /\ log'[i].reg.ch = self
       /\ (call'.op # "none")
             => \A grp \in RegGroup, ch \in Channel :
                   (dma'[grp][ch] # call'.pre[grp][ch])
                      => \/ grp \in TxGroups /\ ch = PipeTx(call')
                         \/ grp \in RxGroups /\ ch = PipeRx(call')]_vars

\* a peripheral pipe over two distinct channels was constructed over
\* registers found all ones: bit 0 of the transmit channel's out_conf0 and
\* of the receive channel's in_conf0 is clear, and the receive channel's
\* out_conf0 and the transmit channel's in_conf0 are as found
C17_Witness ==
    /\ call.op = "memory_n_peripheral"
    /\ todo = <<>>
    /\ call.tx_channel # call.rx_channel
    /\ dma.out_conf0[call.tx_channel] = Bit \ {0}
    /\ dma.in_conf0[call.rx_channel] = Bit \ {0}
    /\ dma.out_conf0[call.rx_channel] = Bit
    /\ dma.in_conf0[call.tx_channel] = Bit
    /\ dma.out_peri_sel[call.rx_channel] = Bit
    /\ dma.in_peri_sel[call.tx_channel] = Bit

---------------------------------------------------------------------------
(* Claims about pipes that may share a channel, checked under SpecAlias *)

LinkGroups == {"out_link", "in_link"}

\* C12: start_transfer is the only DMAPipe function that arms hardware.
\* Neither constructor and neither poll writes an out_link or in_link
\* register, so while one of them runs and after it returns every link
\* register holds what it held when the call was entered; a direction whose
\* enable bit (bit 22) was clear when a call was entered has it set only
\* if the call is start_transfer on a pipe with that channel in that role.
C12_OnlyStartArms ==
    /\ (call.op \in {"memory_n_peripheral", "memory_n_memory",
                      "get_tx_completion", "get_rx_completion"})
          => /\ \A i \in DOMAIN log : log[i].reg.grp \notin LinkGroups
             /\ dma.out_link = call.pre.out_link
             /\ dma.in_link = call.pre.in_link
    /\ (call.op # "none")
          => \A ch \in Channel :
                /\ (22 \in dma.out_link[ch] /\ 22 \notin call.pre.out_link[ch])
                      => /\ call.op = "start_transfer"
                         /\ call.self.tx_channel = ch
                /\ (22 \in dma.in_link[ch] /\ 22 \notin call.pre.in_link[ch])
                      => /\ call.op = "start_transfer"
                         /\ call.self.rx_channel = ch

\* a first pipe was started and is armed; a second pipe over another channel
\* was constructed after it and is polled, and its directions are not armed
C12_Witness ==
    /\ call.op = "get_rx_completion"
    /\ call.self = DMAPipe("Channel1", "Channel1")
    /\ DMAPipe("Channel0", "Channel0") \in pipes
    /\ 22 \in dma.out_link["Channel0"]
    /\ 22 \in dma.in_link["Channel0"]
    /\ 4 \in dma.in_conf0["Channel1"]
    /\ 22 \notin dma.out_link["Channel1"]
    /\ 22 \notin dma.in_link["Channel1"]

\* the transmit and the receive channel a constructor call is given
TxOf(c) == IF c.op = "memory_n_memory" THEN c.channel ELSE c.tx_channel
RxOf(c) == IF c.op = "memory_n_memory" THEN c.channel ELSE c.rx_channel

\* C14: channel exclusivity is not enforced.  Between calls either
\* constructor can be entered over any channel, whatever pipes exist and
\* whether the channel is armed.  A constructor that runs over a channel
\* whose direction is armed (bit 22 of its link register set) and not
\* complete still writes the reset pulse to that direction's configuration
\* register and leaves the link register armed; start_transfer then puts
\* the low 20 bits of its own head addresses in the link registers,
\* whatever head was programmed there before.
C14_ChannelsAreNotExclusive ==
    /\ (todo = <<>>)
          => \A tx \in AliasChannels, rx \in AliasChannels :
                /\ ENABLED memory_n_memory(tx)
                /\ \A p \in AliasPeripherals :
                      ENABLED memory_n_peripheral(tx, rx, p)
    /\ (call.op \in {"memory_n_peripheral", "memory_n_memory"} /\ todo = <<>>)
          => LET tx == TxOf(call)
                 rx == RxOf(call)
                 w == Range(Writes(log))
             IN  /\ (22 \in call.pre.out_link[tx] /\ ~int_st[tx].out_eof)
                       => /\ \E a \in w : a.reg = Ptr("out_conf0", tx)
                                           /\ 0 \in a.val
                          /\ dma.out_link[tx] = call.pre.out_link[tx]
                 /\ (22 \in call.pre.in_link[rx] /\ ~int_st[rx].in_done)
                       => /\ \E a \in w : a.reg = Ptr("in_conf0", rx)
                                           /\ 0 \in a.val
                          /\ dma.in_link[rx] = call.pre.in_link[rx]
    /\ (call.op = "start_transfer" /\ todo = <<>>)
          => /\ Low20(dma.out_link[call.self.tx_channel])
                   = Low20(AsU32(call.tx_list))
             /\ Low20(dma.in_link[call.self.rx_channel])
                   = Low20(AsU32(call.rx_list))

\* over registers found zero, a loopback pipe over Channel0 was started; a
\* peripheral pipe with Channel0 as transmit channel was constructed while
\* Channel0 was armed and not complete, and its start_transfer has replaced
\* the head address of the first pipe in out_link of Channel0
C14_Witness ==
    /\ call.op = "start_transfer"
    /\ todo = <<>>
    /\ call.self = DMAPipe("Channel0", "Channel1")
    /\ DMAPipe("Channel0", "Channel0") \in pipes
    /\ dma.out_link["Channel2"] = {}
    /\ 4 \in dma.in_conf0["Channel0"]
    /\ Value(dma.out_peri_sel["Channel0"]) = UHCI0
    /\ 22 \in call.pre.out_link["Channel0"]
    /\ 22 \in dma.in_link["Channel0"]
    /\ ~int_st["Channel0"].out_eof
    /\ Low20(call.pre.out_link["Channel0"]) # Low20(dma.out_link["Channel0"])
    /\ Low20(call.pre.out_link["Channel0"]) = Low20(dma.in_link["Channel1"])

\* C19: start_transfer is unguarded and the enable bit is never cleared by
\* software.  Between calls start_transfer can be entered on every pipe,
\* armed or not; it always makes its four writes (head of out_link, head
\* of in_link, enable of out_link, enable of in_link), and on an armed
\* direction the head is rewritten with bit 22 still set.  No step of any
\* DMAPipe function clears bit 22 of a link register that has it set.
C19_StartUnguardedEnableSticky ==
    [][/\ \A grp \in LinkGroups, ch \in Channel :
             (22 \in dma[grp][ch]) => (22 \in dma'[grp][ch])
       /\ (todo' = <<>>)
             => \A self \in pipes', tx_list \in HeadAddrs, rx_list \in HeadAddrs :
                   (ENABLED start_transfer(self, tx_list, rx_list))'
       /\ (call'.op = "start_transfer" /\ todo' = <<>>)
             => LET tx == Ptr("out_link", call'.self.tx_channel)
                    rx == Ptr("in_link", call'.self.rx_channel)
                    w == Writes(log')
                IN  /\ Len(w) = 4
                    /\ w[1].reg = tx /\ w[2].reg = rx
                    /\ w[3].reg = tx /\ w[4].reg = rx
                    /\ Low20(w[1].val) = Low20(AsU32(call'.tx_list))
                    /\ Low20(w[2].val) = Low20(AsU32(call'.rx_list))
                    /\ (22 \in call'.pre.out_link[tx.ch]) => (22 \in w[1].val)
                    /\ (22 \in call'.pre.in_link[rx.ch]) => (22 \in w[2].val)
                    /\ 22 \in w[3].val /\ 22 \in w[4].val]_vars

\* over registers found zero, start_transfer has run on a pipe whose two
\* directions were armed by an earlier start_transfer: both heads were
\* replaced and both directions are still armed
C19_Witness ==
    /\ call.op = "start_transfer"
    /\ todo = <<>>
    /\ dma.out_link["Channel2"] = {}
    /\ 22 \in call.pre.out_link[call.self.tx_channel]
    /\ 22 \in call.pre.in_link[call.self.rx_channel]
    /\ Low20(call.pre.out_link[call.self.tx_channel])
          # Low20(dma.out_link[call.self.tx_channel])
    /\ Low20(call.pre.in_link[call.self.rx_channel])
          # Low20(dma.in_link[call.self.rx_channel])
    /\ 22 \in dma.out_link[call.self.tx_channel]
    /\ 22 \in dma.in_link[call.self.rx_channel]

\* C18: the loopback bit (bit 4 of in_conf0) is never cleared by software.
\* No step of any DMAPipe function takes bit 4 out of an in_conf0 register
\* that has it, and a tx_reset or rx_reset step changes no bit but bit 0 of
\* its configuration register; so once memory_n_memory has run over a
\* channel the bit stays set, also through memory_n_peripheral with that
\* channel as receive channel.
C18_LoopbackBitSticky ==
    [][/\ \A ch \in Channel :
             (4 \in dma.in_conf0[ch]) => (4 \in dma'.in_conf0[ch])
       /\ (todo # <<>> /\ Head(todo)[1] \in {"tx_reset", "rx_reset"})
             => \A grp \in RegGroup, ch \in Channel :
                   dma'[grp][ch] \ {0} = dma[grp][ch] \ {0}]_vars

\* over registers found zero, a loopback pipe was constructed over Channel0
\* and then a peripheral pipe with Channel0 as receive channel: the loopback
\* bit of Channel0 is still set
C18_Witness ==
    /\ call.op = "memory_n_peripheral"
    /\ todo = <<>>
    /\ call.rx_channel = "Channel0"
    /\ call.tx_channel = "Channel1"
    /\ DMAPipe("Channel0", "Channel0") \in pipes
    /\ dma.in_conf0["Channel2"] = {}
    /\ call.pre.in_conf0["Channel0"] = {4}
    /\ dma.in_conf0["Channel0"] = {4}
    /\ Value(dma.in_peri_sel["Channel0"]) = UHCI0

---------------------------------------------------------------------------
(* Claims about polls, checked under SpecPoll *)

Polls == {"get_tx_completion", "get_rx_completion"}

\* a step that is a call of get_tx_completion or get_rx_completion
PollStep == ncalls' = ncalls + 1 /\ call'.op \in Polls

\* C13: a poll has no side effect: the step that runs get_tx_completion or
\* get_rx_completion leaves every DMA register (configuration, link, mux
\* and status) and the ListItem as it found them, and a poll that follows
\* the same poll of the same pipe with no status change by the hardware in
\* between returns what that poll returned.
C13_PollsHaveNoSideEffect ==
    [][PollStep
          => /\ dma' = dma
             /\ int_st' = int_st
             /\ item' = item
             /\ (/\ call.op = call'.op
                 /\ call.self = call'.self
                 /\ call.status = int_st)
                   => ret' = ret]_vars

\* the hardware raised the status bit, then the pipe was polled twice in a
\* row with nothing in between, and both polls returned TRUE
C13_Witness ==
    /\ call.op = "get_tx_completion"
    /\ call.prev.repeat
    /\ call.prev.ret
    /\ ret
    /\ dma = call.pre

---------------------------------------------------------------------------
(* Claims about GPIO pins, checked under SpecGpio *)

\* the bits of IO_MUX a Pin method owns
FieldOf(op) ==
    CASE op = "set_function" -> {12, 13}
      [] op = "set_pull" -> {7, 8}
      [] op = "input_enable" -> {9}
      [] op = "set_drive_strength" -> {10, 11}

\* C20: once set_pull has run on a pin (directly or in Input::new), the
\* pull-up bit (8) and the pull-down bit (7) of its IO_MUX are never set
\* together, whatever calls follow; and each of set_function, set_pull,
\* input_enable and set_drive_strength leaves every bit of IO_MUX outside
\* its own field (bits 12-13, 7-8, 9, 10-11) as it found it, and puts its
\* argument in its field.
C20_PullBitsExclusiveFieldsIsolated ==
    /\ gpio.pulled => ~({7, 8} \subseteq gpio.io_mux)
    /\ (call.op \in {"set_function", "set_pull", "input_enable",
                      "set_drive_strength"})
          => /\ gpio.io_mux \ FieldOf(call.op)
                   = call.pre.io_mux \ FieldOf(call.op)
             /\ gpio.out_cfg = call.pre.out_cfg
             /\ gpio.out_en = call.pre.out_en
             /\ gpio.out = call.pre.out
    /\ (call.op = "set_function")
          => Value(Shr(gpio.io_mux \cap {12, 13}, 12)) = call.function
    /\ (call.op = "set_pull")
          => gpio.io_mux \cap {7, 8} =
                CASE call.pull = "Up" -> {8}
                  [] call.pull = "Down" -> {7}
                  [] call.pull = "None" -> {}
    /\ (call.op = "input_enable")
          => (9 \in gpio.io_mux) = call.enable
    /\ (call.op = "set_drive_strength")
          => Value(Shr(gpio.io_mux \cap {10, 11}, 10)) = call.drive_strength

\* a pin configured as an input with function 1 was pulled down and is now
\* pulled up: bit 8 has replaced bit 7, and the function and input-enable
\* fields set by the earlier calls are still there
C20_Witness ==
    /\ call.op = "set_pull"
    /\ call.pull = "Up"
    /\ call.pre.pulled
    /\ call.pre.io_mux \cap {7, 8} = {7}
    /\ gpio.io_mux \cap {7, 8} = {8}
    /\ gpio.io_mux \cap {12, 13} = {12}
    /\ 9 \in gpio.io_mux
    /\ gpio.io_mux \cap {10, 11} = {11}

---------------------------------------------------------------------------
(* Claims about a loopback transfer from end to end, checked under         *)
(* SpecLoopback                                                            *)

\* C15: a chain of two ListItems over buffers of 10 and 20 bytes, the first
\* linked to the second, is started on a loopback DMAPipe; the engine walks
\* it in order and raises both status bits without a fault.  Once
\* get_tx_completion and get_rx_completion have both returned true,
\* has_error() is false on both ListItems.
C15_LoopbackTransferHasNoError ==
    /\ (harness.pc = "run" /\ harness.tx_done /\ harness.rx_done)
          => \A a \in DOMAIN chain : ~ListItem_has_error(chain[a])
    /\ (harness.pc = "checked")
          => \A a \in DOMAIN harness.has_error : ~harness.has_error[a]

====
